---------------------------- MODULE Spec2Model ----------------------------
(***************************************************************************)
(* A model of appserver.py: the route table and its decorator, the GET/PUT *)
(* dispatch of MyHandler, respond, decode_multipart and the control loop.  *)
(*                                                                         *)
(* Python bytes are sequences of integers 0..255 and Python str values are *)
(* sequences of code points, so that encode/decode are real conversions.   *)
(* A Python call that can raise returns a record with an ok field.         *)
(***************************************************************************)
EXTENDS Integers, Sequences, FiniteSets, TLC

VARIABLES
    mainpc,       \* the main thread: "import", "loop" or "exited"
    nreg,         \* how many @route decorators have run
    routes,       \* the route table: path -> the function its wrapper calls
    quit,         \* _quit_server
    exitWhy,      \* why the process exited: "quit" or "interrupt"
    lpc,          \* where the listener thread is in the current request
    req,          \* the request being handled
    fn,           \* the function the wrapper was called for
    fargs,        \* the arguments it was called with
    exc,          \* the exception in flight: [raised, msg, wrapped]
    log,          \* what happened for the request, in order
    fs,           \* the files: absolute path -> content
    outcome,      \* how the request ended: "completed" or "aborted"
    nfail,        \* how many requests have ended aborted (up to MaxFails)
    mpCfg,        \* multipart check: which parts the client may send
    mpBoundary,   \* multipart check: the boundary the encoder chose (bytes)
    mpParts,      \* multipart check: the parts handed to the encoder
    mpBody,       \* multipart check: the encoded body (bytes)
    mpOut,        \* multipart check: what decode_multipart returned
    mpPc,         \* multipart check: "build", "encoded" or "decoded"
    rspArgs,      \* respond check: the arguments [code, ctype, body]
    rspOut,       \* respond check: what respond did on the connection
    rspPc         \* respond check: "ready" or "sent"

mpVars == <<mpCfg, mpBoundary, mpParts, mpBody, mpOut, mpPc>>

rspVars == <<rspArgs, rspOut, rspPc>>

srvVars ==
    <<mainpc, nreg, routes, quit, exitWhy, lpc, req, fn, fargs, exc, log, fs,
      outcome, nfail>>

vars == <<srvVars, mpVars, rspVars>>

-----------------------------------------------------------------------------
(* Python's bytes and str primitives, as the code uses them.               *)

CRLF == <<13, 10>>
CRLFCRLF == <<13, 10, 13, 10>>

\* s.startswith(p)
StartsWith(s, p) ==
    /\ Len(p) <= Len(s)
    /\ \A k \in 1..Len(p) : s[k] = p[k]

\* whether sub occurs in s at 0-based offset i
MatchAt(s, sub, i) ==
    /\ i + Len(sub) <= Len(s)
    /\ \A k \in 1..Len(sub) : s[i + k] = sub[k]

RECURSIVE FindFrom(_, _, _)
FindFrom(s, sub, i) ==
    IF i + Len(sub) > Len(s) THEN -1
    ELSE IF MatchAt(s, sub, i) THEN i
    ELSE FindFrom(s, sub, i + 1)

\* s.find(sub): the lowest 0-based offset of sub in s, or -1
Find(s, sub) == FindFrom(s, sub, 0)

\* s[:n], for n >= 0 and for n < 0
SliceTo(s, n) ==
    LET stop == IF n >= 0 THEN (IF n < Len(s) THEN n ELSE Len(s))
                ELSE (IF Len(s) + n > 0 THEN Len(s) + n ELSE 0)
    IN  SubSeq(s, 1, stop)

\* s[n:], for n >= 0
SliceFrom(s, n) == SubSeq(s, n + 1, Len(s))

RECURSIVE SplitAll(_, _)
\* s.split(sep) for a non-empty sep
SplitAll(s, sep) ==
    LET i == Find(s, sep)
    IN  IF i = -1 THEN <<s>>
        ELSE <<SliceTo(s, i)>> \o SplitAll(SliceFrom(s, i + Len(sep)), sep)

\* s.split(sep, maxsplit=1) for a non-empty sep
SplitOnce(s, sep) ==
    LET i == Find(s, sep)
    IN  IF i = -1 THEN <<s>>
        ELSE <<SliceTo(s, i), SliceFrom(s, i + Len(sep))>>

\* a dict with one more item: d[key] = val
DictSet(d, key, val) ==
    [k \in (DOMAIN d) \cup {key} |-> IF k = key THEN val ELSE d[k]]

\* {}
EmptyDict == [k \in {} |-> <<>>]

\* b'"'
Quote == <<34>>

\* lst[1:]
DropFirst(lst) == IF lst = <<>> THEN <<>> ELSE Tail(lst)

IsCont(b) == b >= 128 /\ b <= 191

RECURSIVE Utf8Decode(_)
\* b.decode("utf-8"), strict: [ok, s], s the code points
Utf8Decode(b) ==
    IF b = <<>> THEN [ok |-> TRUE, s |-> <<>>]
    ELSE
      LET b1 == b[1]
          n  == IF b1 < 128 THEN 1
                ELSE IF b1 >= 194 /\ b1 <= 223 THEN 2
                ELSE IF b1 >= 224 /\ b1 <= 239 THEN 3
                ELSE IF b1 >= 240 /\ b1 <= 244 THEN 4
                ELSE 0
      IN  IF n = 0 \/ Len(b) < n \/ \E k \in 2..n : ~IsCont(b[k])
          THEN [ok |-> FALSE, s |-> <<>>]
          ELSE
            LET cp == IF n = 1 THEN b1
                      ELSE IF n = 2 THEN (b1 - 192) * 64 + (b[2] - 128)
                      ELSE IF n = 3 THEN (b1 - 224) * 4096 + (b[2] - 128) * 64
                                         + (b[3] - 128)
                      ELSE (b1 - 240) * 262144 + (b[2] - 128) * 4096
                           + (b[3] - 128) * 64 + (b[4] - 128)
                good == CASE n = 3 -> cp >= 2048 /\ ~(cp >= 55296 /\ cp <= 57343)
                          [] n = 4 -> cp >= 65536 /\ cp <= 1114111
                          [] OTHER -> TRUE
                rest == Utf8Decode(SubSeq(b, n + 1, Len(b)))
            IN  IF good /\ rest.ok
                THEN [ok |-> TRUE, s |-> <<cp>> \o rest.s]
                ELSE [ok |-> FALSE, s |-> <<>>]

\* one code point's UTF-8 bytes (surrogates cannot be encoded)
Utf8EncodeCp(cp) ==
    IF cp < 128 THEN <<cp>>
    ELSE IF cp < 2048 THEN <<192 + (cp \div 64), 128 + (cp % 64)>>
    ELSE IF cp < 65536
         THEN <<224 + (cp \div 4096), 128 + ((cp \div 64) % 64),
                128 + (cp % 64)>>
    ELSE <<240 + (cp \div 262144), 128 + ((cp \div 4096) % 64),
           128 + ((cp \div 64) % 64), 128 + (cp % 64)>>

RECURSIVE Utf8Encode(_)
\* s.encode("utf-8") for a str without surrogates
Utf8Encode(s) ==
    IF s = <<>> THEN <<>> ELSE Utf8EncodeCp(s[1]) \o Utf8Encode(Tail(s))

-----------------------------------------------------------------------------
(* The request target and the query string: urlparse and parse_qs, for     *)
(* targets without fragment, parameters, percent escapes or plus signs.    *)

\* urlparse(self.path): the path up to the first "?", the query after it
urlparse(target) ==
    LET i == Find(target, <<63>>)
    IN  IF i = -1 THEN [path |-> target, query |-> <<>>]
        ELSE [path |-> SliceTo(target, i), query |-> SliceFrom(target, i + 1)]

RECURSIVE QueryValues(_, _)
\* parse_qs(query)[key], [] for a key that is not there: the values of the
\* name=value fields with that name, in order; a field without "=" or with
\* an empty value is skipped
QueryValues(fields, key) ==
    IF fields = <<>> THEN <<>>
    ELSE LET nv == SplitOnce(Head(fields), <<61>>)
             rest == QueryValues(Tail(fields), key)
         IN  IF Len(nv) = 2 /\ nv[1] = key /\ nv[2] # <<>>
             THEN <<nv[2]>> \o rest
             ELSE rest

\* "args"
ArgsKey == <<97, 114, 103, 115>>

\* parse_qs(query)["args"][0]: [ok, s]; a missing key raises KeyError
QueryArgs(query) ==
    LET vals == QueryValues(SplitAll(query, <<38>>), ArgsKey)
    IN  IF vals = <<>> THEN [ok |-> FALSE, s |-> <<>>]
        ELSE [ok |-> TRUE, s |-> vals[1]]

-----------------------------------------------------------------------------
(* json.loads, for texts of digits, strings without escapes, arrays and    *)
(* objects, without white space. A JSON value is a record [t, v]:          *)
(*   t = "num", v the integer;      t = "str", v the code points;          *)
(*   t = "arr", v the sequence;     t = "obj", v the function on the keys. *)

JNum(n) == [t |-> "num", v |-> n]
JStr(s) == [t |-> "str", v |-> s]
JArr(a) == [t |-> "arr", v |-> a]
JObj(o) == [t |-> "obj", v |-> o]

JFail == [ok |-> FALSE, val |-> JNum(0), next |-> 0]

IsDigit(c) == c >= 48 /\ c <= 57

RECURSIVE ScanDigits(_, _, _)
\* the integer that starts at s[i] with value acc so far: [val, next]
ScanDigits(s, i, acc) ==
    IF i <= Len(s) /\ IsDigit(s[i])
    THEN ScanDigits(s, i + 1, acc * 10 + (s[i] - 48))
    ELSE [val |-> acc, next |-> i]

\* the string that starts at the quote s[i]: [ok, val, next]
ParseString(s, i) ==
    LET q == Find(SliceFrom(s, i), Quote)
    IN  IF q = -1 THEN JFail
        ELSE [ok |-> TRUE, val |-> JStr(SubSeq(s, i + 1, i + q)),
              next |-> i + q + 2]

\* the key and colon of an object member at s[i]: [ok, key, next]
ParseKey(s, i) ==
    LET k == IF i <= Len(s) /\ s[i] = 34 THEN ParseString(s, i) ELSE JFail
    IN  IF k.ok /\ k.next <= Len(s) /\ s[k.next] = 58
        THEN [ok |-> TRUE, key |-> k.val.v, next |-> k.next + 1]
        ELSE [ok |-> FALSE, key |-> <<>>, next |-> 0]

\* what follows a value that ends before s[n]: "," (44), the closing
\* character close, or anything else (0)
After(s, n, close) ==
    IF n > Len(s) THEN 0
    ELSE IF s[n] = 44 THEN 44
    ELSE IF s[n] = close THEN close
    ELSE 0

RECURSIVE Parse(_, _, _, _, _)
\* The decoder at s[i] (1-based): [ok, val, next].
\*   what = "value":    the value that starts at s[i]
\*   what = "elements": the elements of an array from s[i] on, acc the list
\*                      of the ones before
\*   what = "members":  the members of an object from s[i] on, the first
\*                      one's key being key and s[i] its value, acc the dict
\*                      of the ones before; a repeated key keeps its last
\*                      value
Parse(what, s, i, acc, key) ==
    IF i > Len(s) THEN JFail
    ELSE IF what = "value"
    THEN IF s[i] = 48 THEN [ok |-> TRUE, val |-> JNum(0), next |-> i + 1]
         ELSE IF IsDigit(s[i])
              THEN [ok |-> TRUE, val |-> JNum(ScanDigits(s, i, 0).val),
                    next |-> ScanDigits(s, i, 0).next]
         ELSE IF s[i] = 34 THEN ParseString(s, i)
         ELSE IF s[i] = 91
              THEN IF i + 1 <= Len(s) /\ s[i + 1] = 93
                   THEN [ok |-> TRUE, val |-> JArr(<<>>), next |-> i + 2]
                   ELSE Parse("elements", s, i + 1, <<>>, <<>>)
         ELSE IF s[i] = 123
              THEN IF i + 1 <= Len(s) /\ s[i + 1] = 125
                   THEN [ok |-> TRUE, val |-> JObj(EmptyDict), next |-> i + 2]
                   ELSE IF ParseKey(s, i + 1).ok
                        THEN Parse("members", s, ParseKey(s, i + 1).next,
                                   EmptyDict, ParseKey(s, i + 1).key)
                   ELSE JFail
         ELSE JFail
    ELSE
      LET e == Parse("value", s, i, <<>>, <<>>)
          sep == After(s, e.next, IF what = "elements" THEN 93 ELSE 125)
          all == IF what = "elements" THEN Append(acc, e.val)
                 ELSE DictSet(acc, key, e.val)
          k == ParseKey(s, e.next + 1)
      IN  IF ~e.ok \/ sep = 0 THEN JFail
          ELSE IF sep # 44
               THEN [ok |-> TRUE,
                     val |-> IF what = "elements" THEN JArr(all) ELSE JObj(all),
                     next |-> e.next + 1]
          ELSE IF what = "elements"
               THEN Parse("elements", s, e.next + 1, all, <<>>)
          ELSE IF k.ok THEN Parse("members", s, k.next, all, k.key)
          ELSE JFail

ParseValue(s, i) == Parse("value", s, i, <<>>, <<>>)

\* json.loads(s): [ok, val]; ok is FALSE where it raises JSONDecodeError
json_loads(s) ==
    LET r == ParseValue(s, 1)
    IN  IF r.ok /\ r.next = Len(s) + 1 THEN [ok |-> TRUE, val |-> r.val]
        ELSE [ok |-> FALSE, val |-> JNum(0)]

-----------------------------------------------------------------------------
(* decode_multipart                                                        *)

\* b"Content-Disposition: form-data;"
FormDataPrefix ==
    <<67, 111, 110, 116, 101, 110, 116, 45, 68, 105, 115, 112, 111, 115, 105,
      116, 105, 111, 110, 58, 32, 102, 111, 114, 109, 45, 100, 97, 116, 97, 59>>

\* b'name="'
NameEq == <<110, 97, 109, 101, 61, 34>>

\* re.search(b'name="([^"]*)"', meta): [ok, g], g the group 1 bytes; the
\* first name=" either has a closing quote after it or nothing matches
SearchName(meta) ==
    LET i == Find(meta, NameEq)
        rest == SliceFrom(meta, i + Len(NameEq))
        q == Find(rest, Quote)
    IN  IF i = -1 \/ q = -1 THEN [ok |-> FALSE, g |-> <<>>]
        ELSE [ok |-> TRUE, g |-> SliceTo(rest, q)]

\* part[:-2].split(b"\r\n\r\n", maxsplit=1)
SplitHeaderAll(part) == SplitAll(SliceTo(part, -2), CRLFCRLF)

SplitHeader(part) == SplitOnce(SliceTo(part, -2), CRLFCRLF)

\* meta.startswith(b"Content-Disposition: form-data;")
IsFormDataAnywhere(meta) == Find(meta, FormDataPrefix) # -1

IsFormData(meta) == StartsWith(meta, FormDataPrefix)

\* One turn of the loop over the parts: [ok, keep, key, content].
\* ok is FALSE where the code raises: the unpacking of a split that did not
\* give two pieces, a missing name (None[1]), a name that is not UTF-8.
DecodePart(part) ==
    LET pieces == SplitHeader(part)
        bad == [ok |-> FALSE, keep |-> FALSE, key |-> <<>>, content |-> <<>>]
    IN  IF Len(pieces) # 2 THEN bad
        ELSE
          LET meta == pieces[1]
              content == pieces[2]
          IN  IF IsFormData(meta)
              THEN LET m == SearchName(meta)
                       k == Utf8Decode(m.g)
                   IN  IF m.ok /\ k.ok
                       THEN [ok |-> TRUE, keep |-> TRUE, key |-> k.s,
                             content |-> content]
                       ELSE bad
              ELSE [ok |-> TRUE, keep |-> FALSE, key |-> <<>>,
                    content |-> <<>>]

RECURSIVE DecodeParts(_, _)
DecodeParts(parts, data) ==
    IF parts = <<>> THEN [ok |-> TRUE, data |-> data]
    ELSE LET r == DecodePart(Head(parts))
         IN  IF ~r.ok THEN [ok |-> FALSE, data |-> EmptyDict]
             ELSE DecodeParts(Tail(parts),
                              IF r.keep THEN DictSet(data, r.key, r.content)
                              ELSE data)

\* mp[-1] = mp[-1][: -(seplen + 2)]
StripEndShort(last, seplen) == SliceTo(last, -seplen)

StripEnd(last, seplen) == SliceTo(last, -(seplen + 2))

\* decode_multipart(mp): [ok, data]; ok is FALSE where the code raises
decode_multipart(mp) ==
    LET seplen == Find(mp, CRLF) + 2
        sep == SliceTo(mp, seplen)
        fail == [ok |-> FALSE, data |-> EmptyDict]
    IN  IF sep = <<>> THEN fail                   \* split: empty separator
        ELSE
          LET segs == DropFirst(SplitAll(mp, sep))
          IN  IF segs = <<>> THEN fail            \* mp[-1] of an empty list
              ELSE DecodeParts(
                     [segs EXCEPT ![Len(segs)] = StripEnd(@, seplen)],
                     EmptyDict)

-----------------------------------------------------------------------------
(* The router: the decorated functions, each standing for its __name__, in *)
(* the order the module decorates them.                                    *)

\* "api_fs_readtext"
api_fs_readtext ==
    <<97, 112, 105, 95, 102, 115, 95, 114, 101, 97, 100, 116, 101, 120,
    116>>
\* "api_fs_readbinary"
api_fs_readbinary ==
    <<97, 112, 105, 95, 102, 115, 95, 114, 101, 97, 100, 98, 105, 110, 97,
    114, 121>>
\* "api_fs_readfolder"
api_fs_readfolder ==
    <<97, 112, 105, 95, 102, 115, 95, 114, 101, 97, 100, 102, 111, 108, 100,
    101, 114>>
\* "api_fs_getstats"
api_fs_getstats ==
    <<97, 112, 105, 95, 102, 115, 95, 103, 101, 116, 115, 116, 97, 116,
    115>>
\* "api_fs_deletefile"
api_fs_deletefile ==
    <<97, 112, 105, 95, 102, 115, 95, 100, 101, 108, 101, 116, 101, 102,
    105, 108, 101>>
\* "api_fs_makefolder"
api_fs_makefolder ==
    <<97, 112, 105, 95, 102, 115, 95, 109, 97, 107, 101, 102, 111, 108, 100,
    101, 114>>
\* "api_fs_deletefolder"
api_fs_deletefolder ==
    <<97, 112, 105, 95, 102, 115, 95, 100, 101, 108, 101, 116, 101, 102,
    111, 108, 100, 101, 114>>
\* "api_fs_writefile"
api_fs_writefile ==
    <<97, 112, 105, 95, 102, 115, 95, 119, 114, 105, 116, 101, 102, 105,
    108, 101>>
\* "api_fs_copyfile"
api_fs_copyfile ==
    <<97, 112, 105, 95, 102, 115, 95, 99, 111, 112, 121, 102, 105, 108,
    101>>
\* "api_fs_relativepath"
api_fs_relativepath ==
    <<97, 112, 105, 95, 102, 115, 95, 114, 101, 108, 97, 116, 105, 118, 101,
    112, 97, 116, 104>>
\* "api_ui_chooseopenfile"
api_ui_chooseopenfile ==
    <<97, 112, 105, 95, 117, 105, 95, 99, 104, 111, 111, 115, 101, 111, 112,
    101, 110, 102, 105, 108, 101>>
\* "api_ui_choosesavefile"
api_ui_choosesavefile ==
    <<97, 112, 105, 95, 117, 105, 95, 99, 104, 111, 111, 115, 101, 115, 97,
    118, 101, 102, 105, 108, 101>>
\* "api_ui_choosefolder"
api_ui_choosefolder ==
    <<97, 112, 105, 95, 117, 105, 95, 99, 104, 111, 111, 115, 101, 102, 111,
    108, 100, 101, 114>>
\* "api_exit"
api_exit == <<97, 112, 105, 95, 101, 120, 105, 116>>
\* "api_command"
api_command == <<97, 112, 105, 95, 99, 111, 109, 109, 97, 110, 100>>

Decorated ==
    <<api_fs_readtext,
      api_fs_readbinary,
      api_fs_readfolder,
      api_fs_getstats,
      api_fs_deletefile,
      api_fs_makefolder,
      api_fs_deletefolder,
      api_fs_writefile,
      api_fs_copyfile,
      api_fs_relativepath,
      api_ui_chooseopenfile,
      api_ui_choosesavefile,
      api_ui_choosefolder,
      api_exit,
      api_command>>

RECURSIVE Replace(_, _, _)
\* s.replace(old, new) for one-character old and new
Replace(s, old, new) ==
    IF s = <<>> THEN <<>>
    ELSE <<IF s[1] = old THEN new ELSE s[1]>> \o Replace(Tail(s), old, new)

\* s.replace(old, new, 1)
ReplaceFirst(s, old, new) ==
    LET I == {i \in 1..Len(s) : s[i] = old}
    IN  IF I = {} THEN s
        ELSE LET m == CHOOSE i \in I : \A j \in I : i <= j
             IN  [s EXCEPT ![m] = new]

\* routename = "/" + f.__name__.replace("_", "/")
routenameFirstOnly(f) == <<47>> \o ReplaceFirst(f, 95, 47)

routename(f) == <<47>> \o Replace(f, 95, 47)

\* routes[routename] = lambda handler, *args: trycatch(f, handler, *args):
\* the table maps the path to the function its wrapper calls
Register(table, f) == DictSet(table, routename(f), f)

\* "/api/"
ApiPrefix == <<47, 97, 112, 105, 47>>
\* "/@api.js"
ApiJsTarget == <<47, 64, 97, 112, 105, 46, 106, 115>>
\* "/api/fs/readtext"
ReadTextRoute ==
    <<47, 97, 112, 105, 47, 102, 115, 47, 114, 101, 97, 100, 116, 101, 120,
    116>>
\* rootdir, the directory served: "/r"
rootdir == <<47, 114>>
\* os.path.join(os.path.dirname(__file__), "api.js"): "/s/api.js"
ApiJsPath == <<47, 115, 47, 97, 112, 105, 46, 106, 115>>
\* "path"
PathKey == <<112, 97, 116, 104>>
\* "contents"
ContentsKey == <<99, 111, 110, 116, 101, 110, 116, 115>>
\* "src"
SrcKey == <<115, 114, 99>>
\* "dest"
DestKey == <<100, 101, 115, 116>>

\* abspath(path) = os.path.normpath(os.path.join(rootdir, path)), for paths
\* without ".", ".." and doubled separators
abspath(path) ==
    IF path = <<>> THEN rootdir
    ELSE IF path[1] = 47 THEN path
    ELSE rootdir \o <<47>> \o path

-----------------------------------------------------------------------------
(* respond, as the operations it performs on the connection, in order.     *)
(* A body is [k, v]: k = "none" (no body given), "bytes" or "str".         *)

NoBody == [k |-> "none", v |-> <<>>]
Bytes(b) == [k |-> "bytes", v |-> b]
Text(s) == [k |-> "str", v |-> s]

\* one entry of the log of a request
Entry(op, code, name, value, data) ==
    [op |-> op, code |-> code, name |-> name, value |-> value, data |-> data]

SendStatus(code) == Entry("status", code, "", "", <<>>)
SendHeader(name, value) == Entry("header", 0, name, value, <<>>)
EndHeaders == Entry("end", 0, "", "", <<>>)
Write(data) == Entry("write", 0, "", "", data)

\* a respond that sends Cache-Control only together with a content type
respondCacheIfTyped(code, content_type, contents_b) ==
    <<SendStatus(code)>>
    \o (IF content_type # ""
        THEN <<SendHeader("Content-type", content_type),
               SendHeader("Cache-Control", "no-cache")>>
        ELSE <<>>)
    \o <<EndHeaders>>
    \o (IF contents_b.v # <<>>
        THEN <<Write(IF contents_b.k # "bytes" THEN Utf8Encode(contents_b.v)
                     ELSE contents_b.v)>>
        ELSE <<>>)

\* a respond that writes a text as it is, one byte for each character
respondUnencoded(code, content_type, contents_b) ==
    <<SendStatus(code)>>
    \o (IF content_type # "" THEN <<SendHeader("Content-type", content_type)>>
        ELSE <<>>)
    \o <<SendHeader("Cache-Control", "no-cache")>>
    \o <<EndHeaders>>
    \o (IF contents_b.v # <<>> THEN <<Write(contents_b.v)>> ELSE <<>>)

\* respond(code, content_type, contents_b)
respond(code, content_type, contents_b) ==
    <<SendStatus(code)>>
    \o (IF content_type # "" THEN <<SendHeader("Content-type", content_type)>>
        ELSE <<>>)
    \o <<SendHeader("Cache-Control", "no-cache")>>
    \o <<EndHeaders>>
    \o (IF contents_b.v # <<>>
        THEN <<Write(IF contents_b.k # "bytes" THEN Utf8Encode(contents_b.v)
                     ELSE contents_b.v)>>
        ELSE <<>>)

-----------------------------------------------------------------------------
(* The route functions. A function's run is an outcome                     *)
(*   [resp, raised, msg, fs]:                                              *)
(* what it sent through respond, whether it raised and with which message  *)
(* text str(e), and the files it left. The messages stand for the texts    *)
(* Python and the operating system give. An argument is a JSON value, a    *)
(* decoded multipart body [t |-> "form", v |-> the dict of bytes], or the  *)
(* content type of the /@api.js call, [t |-> "ctype", v |-> its name].     *)

\* str(e) of a TypeError
MsgTypeError == <<84, 121, 112, 101, 69, 114, 114, 111, 114>>
\* str(e) of the AttributeError of a str without decode
MsgAttributeError == <<110, 111, 32, 100, 101, 99, 111, 100, 101>>
\* str(e) of a UnicodeDecodeError
MsgUnicodeError == <<117, 116, 102, 45, 56>>
\* str(e) of a FileNotFoundError, before the path
MsgNoFilePrefix == <<69, 78, 79, 69, 78, 84, 32>>

MsgNoFile(path) == MsgNoFilePrefix \o path

\* str(e) of KeyError(key): repr(key)
MsgKeyError(key) == <<39>> \o key \o <<39>>

\* messages of the failures of the capabilities that are not modelled in
\* detail (folders, dialogs, processes): an empty one and one with e-acute
CapMsgs == {<<>>, <<110, 111, 32, 233>>}

\* what a file dialog returns: "" when cancelled, or the chosen path
PickedNames == {<<>>, <<47, 114, 47, 97>>}

HOk(resp, files) ==
    [resp |-> resp, raised |-> FALSE, msg |-> <<>>, fs |-> files]

HRaise(resp, msg, files) ==
    [resp |-> resp, raised |-> TRUE, msg |-> msg, fs |-> files]

\* the positional arguments a function takes after handler: [min, max]
Arity(f) ==
    IF f = api_exit THEN [min |-> 0, max |-> 0]
    ELSE IF f \in {api_fs_readtext, api_fs_readbinary}
         THEN [min |-> 1, max |-> 2]
    ELSE [min |-> 1, max |-> 1]

\* a read that hands the file on as text
ReadFileAsText(args, files, default_type) ==
    LET path == args[1]
        content_type == IF Len(args) = 2 THEN args[2].v ELSE default_type
    IN  IF path.t # "str" THEN {HRaise(<<>>, MsgTypeError, files)}
        ELSE IF abspath(path.v) \notin DOMAIN files
             THEN {HRaise(<<>>, MsgNoFile(abspath(path.v)), files)}
        ELSE {HOk(respond(200, content_type, Text(files[abspath(path.v)])),
                  files)}

\* api_fs_readtext, api_fs_readbinary: open(abspath(path), "rb"), read,
\* respond(200, content_type, contents)
ReadFile(args, files, default_type) ==
    LET path == args[1]
        content_type == IF Len(args) = 2 THEN args[2].v ELSE default_type
    IN  IF path.t # "str" THEN {HRaise(<<>>, MsgTypeError, files)}
        ELSE IF abspath(path.v) \notin DOMAIN files
             THEN {HRaise(<<>>, MsgNoFile(abspath(path.v)), files)}
        ELSE {HOk(respond(200, content_type, Bytes(files[abspath(path.v)])),
                  files)}

\* api_fs_writefile: args["path"].decode("utf-8"), open(..., "wb"),
\* f.write(args["contents"]), respond(200). The file is opened, and so
\* emptied, before args["contents"] is looked up.
api_fs_writefile_run(args, files) ==
    LET a == args[1]
    IN  IF a.t \in {"num", "str", "arr"}
        THEN {HRaise(<<>>, MsgTypeError, files)}
        ELSE IF PathKey \notin DOMAIN a.v
             THEN {HRaise(<<>>, MsgKeyError(PathKey), files)}
        ELSE IF a.t = "obj" THEN {HRaise(<<>>, MsgAttributeError, files)}
        ELSE
          LET p == Utf8Decode(a.v[PathKey])
          IN  IF ~p.ok THEN {HRaise(<<>>, MsgUnicodeError, files)}
              ELSE IF ContentsKey \notin DOMAIN a.v
                   THEN {HRaise(<<>>, MsgKeyError(ContentsKey),
                                DictSet(files, abspath(p.s), <<>>))}
              ELSE {HOk(respond(200, "", NoBody),
                        DictSet(files, abspath(p.s), a.v[ContentsKey]))}

RECURSIVE SeqOfSet(_)
\* the elements of a set, one after the other
SeqOfSet(S) ==
    IF S = {} THEN <<>>
    ELSE LET x == CHOOSE y \in S : TRUE IN <<x>> \o SeqOfSet(S \ {x})

\* what "for p in paths" goes through: [ok, items], an item a str or None
\* for what is no path (a number, a list, a dict)
IterPaths(a) ==
    CASE a.t = "arr" ->
           [ok |-> TRUE,
            items |-> [i \in 1..Len(a.v) |->
                         IF a.v[i].t = "str"
                         THEN [path |-> TRUE, s |-> a.v[i].v]
                         ELSE [path |-> FALSE, s |-> <<>>]]]
      [] a.t = "str" ->
           [ok |-> TRUE,
            items |-> [i \in 1..Len(a.v) |-> [path |-> TRUE, s |-> <<a.v[i]>>]]]
      [] a.t \in {"obj", "form"} ->
           [ok |-> TRUE,
            items |-> LET ks == SeqOfSet(DOMAIN a.v)
                      IN  [i \in 1..Len(ks) |-> [path |-> TRUE, s |-> ks[i]]]]
      [] OTHER -> [ok |-> FALSE, items |-> <<>>]

\* a dict without one key
DictDel(d, key) == [k \in (DOMAIN d) \ {key} |-> d[k]]

RECURSIVE RemoveAll(_, _, _)
\* the loop of api_fs_deletefile: [fs, result], result the list of booleans
RemoveAll(items, files, result) ==
    IF items = <<>> THEN [fs |-> files, result |-> result]
    ELSE LET it == Head(items)
             hit == it.path /\ abspath(it.s) \in DOMAIN files
         IN  RemoveAll(Tail(items),
                       IF hit THEN DictDel(files, abspath(it.s)) ELSE files,
                       Append(result, hit))

\* "true"
TrueText == <<116, 114, 117, 101>>
\* "false"
FalseText == <<102, 97, 108, 115, 101>>

RECURSIVE BoolsJoined(_)
BoolsJoined(bs) ==
    IF bs = <<>> THEN <<>>
    ELSE (IF Head(bs) THEN TrueText ELSE FalseText)
         \o (IF Len(bs) > 1 THEN <<44, 32>> ELSE <<>>) \o BoolsJoined(Tail(bs))

\* json.dumps of a list of booleans
DumpBools(bs) == <<91>> \o BoolsJoined(bs) \o <<93>>

\* api_fs_deletefile: os.remove each path, respond with the list of results
api_fs_deletefile_run(args, files) ==
    LET it == IterPaths(args[1])
    IN  IF ~it.ok THEN {HRaise(<<>>, MsgTypeError, files)}
        ELSE LET r == RemoveAll(it.items, files, <<>>)
             IN  {HOk(respond(200, "application/json",
                              Text(DumpBools(r.result))), r.fs)}

\* the path a dict gives under key: [ok, s]; a str of a JSON object, bytes
\* of a multipart body
PathUnder(a, key) ==
    IF a.t \notin {"obj", "form"} THEN [ok |-> FALSE, s |-> <<>>]
    ELSE IF key \notin DOMAIN a.v THEN [ok |-> FALSE, s |-> <<>>]
    ELSE IF a.t = "form" THEN Utf8Decode(a.v[key])
    ELSE IF a.v[key].t = "str" THEN [ok |-> TRUE, s |-> a.v[key].v]
    ELSE [ok |-> FALSE, s |-> <<>>]

RECURSIVE CopyAll(_, _)
\* the loop of api_fs_copyfile: [ok, msg, fs]
CopyAll(items, files) ==
    IF items = <<>> THEN [ok |-> TRUE, msg |-> <<>>, fs |-> files]
    ELSE LET src == PathUnder(Head(items), SrcKey)
             dest == PathUnder(Head(items), DestKey)
         IN  IF ~src.ok \/ ~dest.ok
             THEN [ok |-> FALSE, msg |-> MsgTypeError, fs |-> files]
             ELSE IF abspath(src.s) \notin DOMAIN files
                  THEN [ok |-> FALSE, msg |-> MsgNoFile(src.s), fs |-> files]
             ELSE CopyAll(Tail(items),
                          DictSet(files, abspath(dest.s),
                                  files[abspath(src.s)]))

\* api_fs_copyfile: shutil.copy(a["src"], a["dest"]) for each a of args (one
\* a when args is no list), respond(200)
api_fs_copyfile_run(args, files) ==
    LET r == CopyAll(IF args[1].t = "arr" THEN args[1].v ELSE <<args[1]>>,
                     files)
    IN  IF r.ok THEN {HOk(respond(200, "", NoBody), r.fs)}
        ELSE {HRaise(<<>>, r.msg, r.fs)}

\* a function that calls a capability not modelled in detail and then
\* responds: the capability raises, or the response is sent
Capability(resp, files) ==
    {HOk(resp, files)} \cup {HRaise(<<>>, m, files) : m \in CapMsgs}

\* api_ui_chooseopenfile, api_ui_choosesavefile, api_ui_choosefolder:
\* with TKRoot() as root: the dialog, then respond(200, "text/plain", fname)
\* inside the with block, then TKRoot.__exit__ (root.destroy()). Creating
\* the window or the dialog can raise before the response, destroy after it;
\* **args raises TypeError for args that is no mapping.
Dialog(args, files) ==
    IF args[1].t \notin {"obj", "form"}
    THEN {HRaise(<<>>, MsgTypeError, files)}
    ELSE {HRaise(<<>>, m, files) : m \in CapMsgs}
         \cup {HOk(respond(200, "text/plain", Text(n)), files) :
                 n \in PickedNames}
         \cup {HRaise(respond(200, "text/plain", Text(n)), m, files) :
                 n \in PickedNames, m \in CapMsgs}

\* json.dumps of an empty folder listing: "[]"
EmptyListText == <<91, 93>>
\* the text of json.dumps(statdict), shortened to "{}"
StatText == <<123, 125>>
\* a relative path: "a.txt"
RelText == <<97, 46, 116, 120, 116>>
\* "done"
DoneText == <<100, 111, 110, 101>>

\* f(handler, *args) inside the try of trycatch: the set of its outcomes.
\* A call with the wrong number of arguments raises TypeError before the
\* function's body runs.
RunFunction(f, args, files) ==
    IF Len(args) < Arity(f).min \/ Len(args) > Arity(f).max
    THEN {HRaise(<<>>, MsgTypeError, files)}
    ELSE
      CASE f = api_fs_readtext -> ReadFile(args, files, "text/plain")
        [] f = api_fs_readbinary ->
             ReadFile(args, files, "application/octet-stream")
        [] f = api_fs_readfolder ->
             Capability(respond(200, "application/json", Text(EmptyListText)),
                        files)
        [] f = api_fs_getstats ->
             Capability(respond(200, "application/json", Text(StatText)),
                        files)
        [] f = api_fs_deletefile -> api_fs_deletefile_run(args, files)
        [] f = api_fs_makefolder -> Capability(respond(200, "", NoBody), files)
        [] f = api_fs_deletefolder ->
             Capability(respond(200, "", NoBody), files)
        [] f = api_fs_writefile -> api_fs_writefile_run(args, files)
        [] f = api_fs_copyfile -> api_fs_copyfile_run(args, files)
        [] f = api_fs_relativepath ->
             Capability(respond(200, "text/plain", Text(RelText)), files)
        [] f \in {api_ui_chooseopenfile, api_ui_choosesavefile,
                  api_ui_choosefolder} -> Dialog(args, files)
        [] f = api_exit -> {HOk(respond(204, "", NoBody), files)}
        [] f = api_command ->
             Capability(respond(200, "text/plain", Text(DoneText)), files)

-----------------------------------------------------------------------------
(* A conforming multipart/form-data encoder (RFC 7578): the client side of *)
(* decode_multipart. Every part is                                         *)
(*   --boundary CRLF headers CRLF CRLF content CRLF                        *)
(* and the body ends with --boundary-- CRLF.                               *)

Dashes == <<45, 45>>

\* b'Content-Disposition: attachment; name="'
AttachmentHead ==
    <<67, 111, 110, 116, 101, 110, 116, 45, 68, 105, 115, 112, 111, 115, 105,
      116, 105, 111, 110, 58, 32, 97, 116, 116, 97, 99, 104, 109, 101, 110,
      116, 59, 32>> \o NameEq

\* b"Content-Type: text/plain"
ContentTypeLine ==
    <<67, 111, 110, 116, 101, 110, 116, 45, 84, 121, 112, 101, 58, 32, 116,
      101, 120, 116, 47, 112, 108, 97, 105, 110>>

\* the header block of a part, by the kind of part
PartHeaders(part) ==
    LET form == FormDataPrefix \o <<32>> \o NameEq \o Utf8Encode(part.name)
                \o Quote
    IN  CASE part.hdr = "form"   -> form
          [] part.hdr = "attach" -> AttachmentHead \o Utf8Encode(part.name)
                                    \o Quote
          [] part.hdr = "typed"  -> ContentTypeLine \o CRLF \o form

RECURSIVE EncodeParts(_, _)
EncodeParts(boundary, parts) ==
    IF parts = <<>> THEN <<>>
    ELSE Dashes \o boundary \o CRLF \o PartHeaders(Head(parts)) \o CRLFCRLF
         \o Head(parts).content \o CRLF \o EncodeParts(boundary, Tail(parts))

EncodeMultipart(boundary, parts) ==
    EncodeParts(boundary, parts) \o Dashes \o boundary \o Dashes \o CRLF

\* whether sub occurs in s
Contains(s, sub) == Find(s, sub) # -1

-----------------------------------------------------------------------------
(* do_GET and do_PUT up to the call of the route: what the request leads   *)
(* to. A request is [method, target, ctype, hasLength, body]: target is    *)
(* self.path, ctype the Content-Type header ("" when absent), hasLength    *)
(* whether a Content-Length header (the length of body) was sent.          *)

\* str(e) of a JSONDecodeError
MsgJsonError ==
    <<69, 120, 112, 101, 99, 116, 105, 110, 103, 32, 118, 97, 108, 117,
    101>>
\* str(e) of the UnboundLocalError of data
MsgUnbound == <<117, 110, 98, 111, 117, 110, 100, 32, 100, 97, 116, 97>>
\* str(e) of the ValueError, TypeError or UnicodeDecodeError of decode_multipart
MsgBadMultipart ==
    <<110, 111, 116, 32, 101, 110, 111, 117, 103, 104, 32, 118, 97, 108,
    117, 101, 115>>

ToCall(f, args) == [kind |-> "call", f |-> f, args |-> args, msg |-> <<>>]
ToRaise(msg) == [kind |-> "raise", f |-> <<>>, args |-> <<>>, msg |-> msg]
ToStatic == [kind |-> "static", f |-> <<>>, args |-> <<>>, msg |-> <<>>]
ToNothing == [kind |-> "nothing", f |-> <<>>, args |-> <<>>, msg |-> <<>>]

\* routes[path](self, *args): KeyError for a path that is no key
Lookup(table, path, args) ==
    IF path \in DOMAIN table THEN ToCall(table[path], args)
    ELSE ToRaise(MsgKeyError(path))

\* the arguments do_GET passes for a query: [ok, args, msg]
GetArgsRaw(query) ==
    IF query = <<>> THEN [ok |-> TRUE, args |-> <<>>, msg |-> <<>>]
    ELSE [ok |-> TRUE, args |-> <<JStr(query)>>, msg |-> <<>>]

GetArgs(query) ==
    IF query = <<>> THEN [ok |-> TRUE, args |-> <<>>, msg |-> <<>>]
    ELSE LET q == QueryArgs(query)
             j == json_loads(q.s)
         IN  IF ~q.ok
             THEN [ok |-> FALSE, args |-> <<>>, msg |-> MsgKeyError(ArgsKey)]
             ELSE IF ~j.ok
                  THEN [ok |-> FALSE, args |-> <<>>, msg |-> MsgJsonError]
             ELSE [ok |-> TRUE, args |-> <<j.val>>, msg |-> <<>>]

\* a do_GET that looks for api.js in the served folder
do_GETScriptInRoot(r, table) ==
    LET urlobj == urlparse(r.target)
    IN  IF StartsWith(urlobj.path, ApiPrefix)
        THEN LET a == GetArgs(urlobj.query)
             IN  IF a.ok THEN Lookup(table, urlobj.path, a.args)
                 ELSE ToRaise(a.msg)
        ELSE IF r.target = ApiJsTarget
             THEN Lookup(table, ReadTextRoute,
                         <<JStr(<<97, 112, 105, 46, 106, 115>>),
                           [t |-> "ctype", v |-> "application/json"]>>)
        ELSE ToStatic

do_GET(r, table) ==
    LET urlobj == urlparse(r.target)
    IN  IF StartsWith(urlobj.path, ApiPrefix)
        THEN LET a == GetArgs(urlobj.query)
             IN  IF a.ok THEN Lookup(table, urlobj.path, a.args)
                 ELSE ToRaise(a.msg)
        ELSE IF r.target = ApiJsTarget
             THEN Lookup(table, ReadTextRoute,
                         <<JStr(ApiJsPath),
                           [t |-> "ctype", v |-> "application/json"]>>)
        ELSE ToStatic

\* self.rfile.read(length): Content-Length bytes, none without the header
ReadContent(r) == IF r.hasLength THEN r.body ELSE <<>>

\* the data do_PUT decodes: [ok, bound, val, msg]; bound is FALSE when no
\* branch assigned data
PutDataLenient(ctype, content) ==
    [ok |-> TRUE, bound |-> TRUE, val |-> [t |-> "form", v |-> EmptyDict],
     msg |-> <<>>]

\* a do_PUT that takes the media type of a Content-Type with parameters
PutDataAnyMultipart(ctype, content) ==
    LET none == JNum(0)
    IN  IF ctype \in {"multipart/form-data", "multipart/form-data; boundary=B"}
        THEN LET d == decode_multipart(content)
             IN  IF d.ok
                 THEN [ok |-> TRUE, bound |-> TRUE,
                       val |-> [t |-> "form", v |-> d.data], msg |-> <<>>]
                 ELSE [ok |-> FALSE, bound |-> FALSE, val |-> none,
                       msg |-> MsgBadMultipart]
        ELSE IF ctype = "application/json"
             THEN LET s == Utf8Decode(content)
                      j == json_loads(s.s)
                  IN  IF ~s.ok
                      THEN [ok |-> FALSE, bound |-> FALSE, val |-> none,
                            msg |-> MsgUnicodeError]
                      ELSE IF ~j.ok
                           THEN [ok |-> FALSE, bound |-> FALSE, val |-> none,
                                 msg |-> MsgJsonError]
                      ELSE [ok |-> TRUE, bound |-> TRUE, val |-> j.val,
                            msg |-> <<>>]
        ELSE [ok |-> TRUE, bound |-> FALSE, val |-> none, msg |-> <<>>]

PutData(ctype, content) ==
    LET none == JNum(0)
    IN  IF ctype = "multipart/form-data"
        THEN LET d == decode_multipart(content)
             IN  IF d.ok
                 THEN [ok |-> TRUE, bound |-> TRUE,
                       val |-> [t |-> "form", v |-> d.data], msg |-> <<>>]
                 ELSE [ok |-> FALSE, bound |-> FALSE, val |-> none,
                       msg |-> MsgBadMultipart]
        ELSE IF ctype = "application/json"
             THEN LET s == Utf8Decode(content)
                      j == json_loads(s.s)
                  IN  IF ~s.ok
                      THEN [ok |-> FALSE, bound |-> FALSE, val |-> none,
                            msg |-> MsgUnicodeError]
                      ELSE IF ~j.ok
                           THEN [ok |-> FALSE, bound |-> FALSE, val |-> none,
                                 msg |-> MsgJsonError]
                      ELSE [ok |-> TRUE, bound |-> TRUE, val |-> j.val,
                            msg |-> <<>>]
        ELSE [ok |-> TRUE, bound |-> FALSE, val |-> none, msg |-> <<>>]

do_PUT(r, table) ==
    LET urlobj == urlparse(r.target)
    IN  IF StartsWith(urlobj.path, ApiPrefix)
        THEN LET d == PutData(r.ctype, ReadContent(r))
             IN  IF ~d.ok THEN ToRaise(d.msg)
                 ELSE IF urlobj.path \notin DOMAIN table
                      THEN ToRaise(MsgKeyError(urlobj.path))
                 ELSE IF ~d.bound THEN ToRaise(MsgUnbound)
                 ELSE Lookup(table, urlobj.path, <<d.val>>)
        ELSE ToNothing

-----------------------------------------------------------------------------
(* The client: JSON.stringify, and the requests it sends.                  *)

RECURSIVE Digits(_)
Digits(n) ==
    IF n < 10 THEN <<48 + n>> ELSE Digits(n \div 10) \o <<48 + (n % 10)>>

RECURSIVE JsonDumps(_), DumpElements(_), DumpMembers(_, _)

DumpElements(a) ==
    IF a = <<>> THEN <<>>
    ELSE JsonDumps(Head(a)) \o (IF Len(a) > 1 THEN <<44>> ELSE <<>>)
         \o DumpElements(Tail(a))

DumpMembers(o, keys) ==
    IF keys = <<>> THEN <<>>
    ELSE Quote \o Head(keys) \o Quote \o <<58>> \o JsonDumps(o[Head(keys)])
         \o (IF Len(keys) > 1 THEN <<44>> ELSE <<>>)
         \o DumpMembers(o, Tail(keys))

\* the compact JSON text of a value
JsonDumps(j) ==
    CASE j.t = "num" -> Digits(j.v)
      [] j.t = "str" -> Quote \o j.v \o Quote
      [] j.t = "arr" -> <<91>> \o DumpElements(j.v) \o <<93>>
      [] j.t = "obj" -> <<123>> \o DumpMembers(j.v, SeqOfSet(DOMAIN j.v))
                        \o <<125>>

\* "a.txt"
ATxt == <<97, 46, 116, 120, 116>>
\* b"hi"
Hi == <<104, 105>>
\* the content of api.js, shortened to b"js"
Js == <<106, 115>>

\* the JSON values the client sends: "a.txt", ["a.txt", {"a": [20]}], {}
JsonSamples ==
    {JStr(ATxt),
     JArr(<<JStr(ATxt), JObj(DictSet(EmptyDict, <<97>>, JArr(<<JNum(20)>>)))>>),
     JObj(EmptyDict)}

\* "args="
ArgsEq == <<97, 114, 103, 115, 61>>
\* a text that is no JSON: "[1"
BadJson == <<91, 49>>
\* a query without args: "x=1"
OtherQuery == <<120, 61, 49>>
\* an API path that is no route: "/api/nosuch"
NoSuchPath == <<47, 97, 112, 105, 47, 110, 111, 115, 117, 99, 104>>
\* a file path: "/index.html"
IndexPath == <<47, 105, 110, 100, 101, 120, 46, 104, 116, 109, 108>>

QueryFor(j) == ArgsEq \o JsonDumps(j)

Queries ==
    {<<>>, ArgsEq \o BadJson, OtherQuery} \cup {QueryFor(j) : j \in JsonSamples}

RoutePaths == {routename(Decorated[i]) : i \in 1..Len(Decorated)}

ApiPaths == RoutePaths \cup {NoSuchPath, ApiPrefix}

TargetOf(path, query) == IF query = <<>> THEN path ELSE path \o <<63>> \o query

GetRequest(target) ==
    [method |-> "GET", target |-> target, ctype |-> "", hasLength |-> FALSE,
     body |-> <<>>]

PutRequest(target, ctype, hasLength, body) ==
    [method |-> "PUT", target |-> target, ctype |-> ctype,
     hasLength |-> hasLength, body |-> body]

FormField(name, content) == [name |-> name, content |-> content, hdr |-> "form"]

\* the multipart body of a write-file call for a.txt
WriteBody(contents) ==
    EncodeMultipart(<<66>>, <<FormField(PathKey, Utf8Encode(ATxt)),
                             FormField(ContentsKey, contents)>>)

\* the same without the contents field
PathOnlyBody ==
    EncodeMultipart(<<66>>, <<FormField(PathKey, Utf8Encode(ATxt))>>)

\* the Content-Type and body pairs of the PUT requests
PutPayloads ==
    {<<"multipart/form-data", TRUE, WriteBody(Hi)>>,
     <<"multipart/form-data", TRUE, WriteBody(<<>>)>>,
     <<"multipart/form-data", TRUE, PathOnlyBody>>,
     <<"multipart/form-data", FALSE, WriteBody(Hi)>>,
     <<"multipart/form-data", TRUE, <<>>>>,
     <<"application/json", TRUE, <<>>>>,
     <<"application/json", TRUE, Utf8Encode(BadJson)>>,
     <<"application/json", TRUE, <<255>>>>,
     <<"multipart/form-data; boundary=B", TRUE, WriteBody(Hi)>>,
     <<"", TRUE, WriteBody(Hi)>>}
    \cup {<<"application/json", TRUE, Utf8Encode(JsonDumps(j))>> :
            j \in JsonSamples}

Requests ==
    {GetRequest(TargetOf(p, q)) : p \in ApiPaths, q \in Queries}
    \cup {GetRequest(ApiJsTarget), GetRequest(IndexPath),
          GetRequest(TargetOf(ApiJsTarget, OtherQuery))}
    \cup {PutRequest(p, pl[1], pl[2], pl[3]) : p \in ApiPaths, pl \in PutPayloads}
    \cup {PutRequest(IndexPath, "application/json", TRUE,
                     Utf8Encode(JsonDumps(JStr(ATxt))))}

-----------------------------------------------------------------------------
(* The server: the main thread (the decorators at import, start_server in  *)
(* a daemon thread, the control loop) and the listener thread, which       *)
(* HTTPServer runs one request at a time.                                  *)

MaxFails == 2

NoRequest ==
    [method |-> "", target |-> <<>>, ctype |-> "", hasLength |-> FALSE,
     body |-> <<>>]

NoExc == [raised |-> FALSE, msg |-> <<>>, wrapped |-> FALSE]

\* the files at start: none, or only api.js beside the server module
InitialFiles == {EmptyDict, DictSet(EmptyDict, ApiJsPath, Js)}

CallMark(f) == Entry("call", 0, "", "", f)
RaiseMark == Entry("raise", 0, "", "", <<>>)
StaticMark == Entry("static", 0, "", "", <<>>)

SrvInit ==
    /\ mainpc = "import"
    /\ nreg = 0
    /\ routes = EmptyDict
    /\ quit = FALSE
    /\ exitWhy = ""
    /\ lpc = "off"
    /\ req = NoRequest
    /\ fn = <<>>
    /\ fargs = <<>>
    /\ exc = NoExc
    /\ log = <<>>
    /\ fs \in InitialFiles
    /\ outcome = ""
    /\ nfail = 0

\* one @route at import: routes[routename] = the wrapper of f
Decorate ==
    /\ mainpc = "import"
    /\ nreg < Len(Decorated)
    /\ routes' = Register(routes, Decorated[nreg + 1])
    /\ nreg' = nreg + 1
    /\ UNCHANGED <<mainpc, quit, exitWhy, lpc, req, fn, fargs, exc, log, fs,
                   outcome, nfail, mpVars, rspVars>>

\* a listener thread started while the decorators are still running
StartServerEarly ==
    /\ mainpc = "import"
    /\ nreg > 0
    /\ lpc = "off"
    /\ lpc' = "idle"
    /\ mainpc' = IF nreg = Len(Decorated) THEN "loop" ELSE "import"
    /\ UNCHANGED <<nreg, routes, quit, exitWhy, req, fn, fargs, exc, log, fs,
                   outcome, nfail, mpVars, rspVars>>

\* __main__: the listener thread is started once the module is imported
StartServer ==
    /\ mainpc = "import"
    /\ nreg = Len(Decorated)
    /\ mainpc' = "loop"
    /\ lpc' = "idle"
    /\ UNCHANGED <<nreg, routes, quit, exitWhy, req, fn, fargs, exc, log, fs,
                   outcome, nfail, mpVars, rspVars>>

\* a control loop that exits only once the listener is idle
PollWhenIdle ==
    /\ mainpc = "loop"
    /\ quit
    /\ lpc = "idle"
    /\ mainpc' = "exited"
    /\ exitWhy' = "quit"
    /\ UNCHANGED <<nreg, routes, quit, lpc, req, fn, fargs, exc, log, fs,
                   outcome, nfail, mpVars, rspVars>>

\* the control loop after time.sleep(1): sys.exit(0) when _quit_server
Poll ==
    /\ mainpc = "loop"
    /\ quit
    /\ mainpc' = "exited"
    /\ exitWhy' = "quit"
    /\ UNCHANGED <<nreg, routes, quit, lpc, req, fn, fargs, exc, log, fs,
                   outcome, nfail, mpVars, rspVars>>

\* the control loop's except: a KeyboardInterrupt during the sleep
Interrupt ==
    /\ mainpc = "loop"
    /\ mainpc' = "exited"
    /\ exitWhy' = "interrupt"
    /\ UNCHANGED <<nreg, routes, quit, lpc, req, fn, fargs, exc, log, fs,
                   outcome, nfail, mpVars, rspVars>>

\* the listener takes the next request, one of those the clients send
AcceptFrom(sent) ==
    /\ mainpc = "loop"
    /\ lpc = "idle"
    /\ \E r \in sent : req' = r
    /\ lpc' = "dispatch"
    /\ UNCHANGED <<mainpc, nreg, routes, quit, exitWhy, fn, fargs, exc, log,
                   fs, outcome, nfail, mpVars, rspVars>>

Accept == AcceptFrom(Requests)

\* do_GET or do_PUT, up to the call of the route's wrapper
DispatchOf(r, table) ==
    IF r.method = "GET" THEN do_GET(r, table) ELSE do_PUT(r, table)

Dispatch ==
    /\ mainpc = "loop"
    /\ lpc = "dispatch"
    /\ \E d \in {DispatchOf(req, routes)} :
           \/ /\ d.kind = "call"
              /\ fn' = d.f
              /\ fargs' = d.args
              /\ log' = Append(log, CallMark(d.f))
              /\ lpc' = "call"
              /\ UNCHANGED exc
           \/ /\ d.kind = "raise"
              /\ exc' = [raised |-> TRUE, msg |-> d.msg, wrapped |-> FALSE]
              /\ lpc' = "failed"
              /\ UNCHANGED <<fn, fargs, log>>
           \/ /\ d.kind = "static"
              /\ log' = Append(log, StaticMark)
              /\ lpc' = "returned"
              /\ UNCHANGED <<fn, fargs, exc>>
           \/ /\ d.kind = "nothing"
              /\ lpc' = "returned"
              /\ UNCHANGED <<fn, fargs, exc, log>>
    /\ UNCHANGED <<mainpc, nreg, routes, quit, exitWhy, req, fs, outcome,
                   nfail, mpVars, rspVars>>

\* trycatch: try: f(handler, *fargs)
CallFunction ==
    /\ mainpc = "loop"
    /\ lpc = "call"
    /\ \E o \in RunFunction(fn, fargs, fs) :
          /\ log' = log \o o.resp
          /\ fs' = o.fs
          /\ exc' = [raised |-> o.raised, msg |-> o.msg, wrapped |-> FALSE]
          /\ lpc' = IF o.raised THEN "except"
                    ELSE IF fn = api_exit THEN "exit_flag"
                    ELSE "returned"
    /\ UNCHANGED <<mainpc, nreg, routes, quit, exitWhy, req, fn, fargs,
                   outcome, nfail, mpVars, rspVars>>

\* an exit route that sets the flag before it responds
SetQuitFirst ==
    /\ mainpc = "loop"
    /\ \/ /\ lpc = "call"
          /\ fn = api_exit
          /\ ~quit
          /\ quit' = TRUE
          /\ UNCHANGED lpc
       \/ /\ lpc = "exit_flag"
          /\ lpc' = "returned"
          /\ UNCHANGED quit
    /\ UNCHANGED <<mainpc, nreg, routes, exitWhy, req, fn, fargs, exc, log, fs,
                   outcome, nfail, mpVars, rspVars>>

\* api_exit after its respond(204): _quit_server = True
SetQuit ==
    /\ mainpc = "loop"
    /\ lpc = "exit_flag"
    /\ quit' = TRUE
    /\ lpc' = "returned"
    /\ UNCHANGED <<mainpc, nreg, routes, exitWhy, req, fn, fargs, exc, log, fs,
                   outcome, nfail, mpVars, rspVars>>

\* trycatch: except Exception as e: handler.respond(404, "text/plain", str(e))
ExceptClauseSilent(msg) == <<>>

ExceptClause500(msg) == respond(500, "text/plain", Text(msg))

ExceptClause(msg) == respond(404, "text/plain", Text(msg))

Except ==
    /\ mainpc = "loop"
    /\ lpc = "except"
    /\ log' = log \o ExceptClause(exc.msg)
    /\ lpc' = "reraise"
    /\ UNCHANGED <<mainpc, nreg, routes, quit, exitWhy, req, fn, fargs, exc,
                   fs, outcome, nfail, mpVars, rspVars>>

\* trycatch: raise e
Reraise ==
    /\ mainpc = "loop"
    /\ lpc = "reraise"
    /\ log' = Append(log, RaiseMark)
    /\ exc' = [exc EXCEPT !.wrapped = TRUE]
    /\ lpc' = "failed"
    /\ UNCHANGED <<mainpc, nreg, routes, quit, exitWhy, req, fn, fargs, fs,
                   outcome, nfail, mpVars, rspVars>>

\* where the listener is after an exception left do_GET or do_PUT:
\* serve_forever catches it, reports it and closes the connection
ListenerDies == "dead"

AfterError == "done"

HandleError ==
    /\ mainpc = "loop"
    /\ lpc = "failed"
    /\ outcome' = "aborted"
    /\ nfail' = IF nfail < MaxFails THEN nfail + 1 ELSE nfail
    /\ lpc' = AfterError
    /\ UNCHANGED <<mainpc, nreg, routes, quit, exitWhy, req, fn, fargs, exc,
                   log, fs, mpVars, rspVars>>

\* do_GET or do_PUT returns
Return ==
    /\ mainpc = "loop"
    /\ lpc = "returned"
    /\ outcome' = "completed"
    /\ lpc' = "done"
    /\ UNCHANGED <<mainpc, nreg, routes, quit, exitWhy, req, fn, fargs, exc,
                   log, fs, nfail, mpVars, rspVars>>

\* the connection is closed; the listener waits for the next request
Close ==
    /\ mainpc = "loop"
    /\ lpc = "done"
    /\ lpc' = "idle"
    /\ req' = NoRequest
    /\ fn' = <<>>
    /\ fargs' = <<>>
    /\ exc' = NoExc
    /\ log' = <<>>
    /\ outcome' = ""
    /\ UNCHANGED <<mainpc, nreg, routes, quit, exitWhy, fs, nfail, mpVars, rspVars>>

-----------------------------------------------------------------------------
(* The multipart check: a client builds a list of parts, encodes it, and   *)
(* decode_multipart is applied to the encoded body.                        *)

MaxParts == 5
MaxMixedParts == 3

\* field names (str): a, b, c, d and e-acute
FieldNames == {<<97>>, <<98>>, <<99>>, <<100>>, <<233>>}

MixedNames == {<<97>>, <<98>>, <<233>>}

\* part contents (bytes): empty, and one holding CRLF CRLF twice
FieldContents == {<<>>, <<120, 13, 10, 13, 10, 121, 13, 10, 13, 10>>}

\* other contents: empty, CRLF CRLF CRLF, and one holding the delimiter --B
MixedContents == {<<>>, <<13, 10, 13, 10, 13, 10>>, <<45, 45, 66>>}

\* boundaries (bytes): B and -q
Boundaries == {<<66>>, <<45, 113>>}

NoResult == [ok |-> FALSE, data |-> EmptyDict]

MPConfigs ==
    [fields  |-> [max |-> MaxParts, names |-> FieldNames, hdrs |-> {"form"},
                  contents |-> FieldContents],
     mixed   |-> [max |-> MaxMixedParts, names |-> MixedNames,
                  hdrs |-> {"form", "attach", "typed"},
                  contents |-> MixedContents]]

PartNames(parts) == {parts[i].name : i \in 1..Len(parts)}

MPAddPart ==
    /\ mpPc = "build"
    /\ Len(mpParts) < mpCfg.max
    /\ \E n \in mpCfg.names \ PartNames(mpParts), c \in mpCfg.contents,
          h \in mpCfg.hdrs :
          mpParts' = Append(mpParts, [name |-> n, content |-> c, hdr |-> h])
    /\ UNCHANGED <<mpCfg, mpBoundary, mpBody, mpOut, mpPc, srvVars, rspVars>>

MPEncode ==
    /\ mpPc = "build"
    /\ mpParts # <<>>
    /\ mpBody' = EncodeMultipart(mpBoundary, mpParts)
    /\ mpPc' = "encoded"
    /\ UNCHANGED <<mpCfg, mpBoundary, mpParts, mpOut, srvVars, rspVars>>

MPDecode ==
    /\ mpPc = "encoded"
    /\ mpOut' = decode_multipart(mpBody)
    /\ mpPc' = "decoded"
    /\ UNCHANGED <<mpCfg, mpBoundary, mpParts, mpBody, srvVars, rspVars>>

\* no respond check
RspIdle ==
    /\ rspArgs = [code |-> 0, ctype |-> "", body |-> NoBody]
    /\ rspOut = <<>>
    /\ rspPc = "off"

MPInitWith(cfg) ==
    /\ mpCfg = cfg
    /\ mpBoundary \in Boundaries
    /\ mpParts = <<>>
    /\ mpBody = <<>>
    /\ mpOut = NoResult
    /\ mpPc = "build"
    /\ SrvInit
    /\ fs = EmptyDict
    /\ RspIdle

MPNext == MPAddPart \/ MPEncode \/ MPDecode

SpecMP == MPInitWith(MPConfigs.fields) /\ [][MPNext]_vars

SpecMPMixed == MPInitWith(MPConfigs.mixed) /\ [][MPNext]_vars

MPIdle ==
    /\ mpCfg = MPConfigs.fields
    /\ mpBoundary = <<66>>
    /\ mpParts = <<>>
    /\ mpBody = <<>>
    /\ mpOut = NoResult
    /\ mpPc = "off"

Init == SrvInit /\ MPIdle /\ RspIdle

Next ==
    \/ Decorate
    \/ StartServer
    \/ Poll
    \/ Interrupt
    \/ Accept
    \/ Dispatch
    \/ CallFunction
    \/ SetQuit
    \/ Except
    \/ Reraise
    \/ HandleError
    \/ Return
    \/ Close

Spec == Init /\ [][Next]_vars

-----------------------------------------------------------------------------
(* The respond check: respond is called once with arguments of a small     *)
(* set: a status code, a content type or none, and a body or none.         *)

RspCodes == {200, 204, 404, 500}

\* no content type (None), text/plain, application/json
RspTypes == {"", "text/plain", "application/json"}

\* no body, b"", b"hi", bytes that are no UTF-8, "", and texts whose
\* characters take one to four bytes in UTF-8
RspBodies ==
    {NoBody, Bytes(<<>>), Bytes(Hi), Bytes(<<255, 0, 13, 10>>), Text(<<>>),
     Text(<<104, 105>>), Text(<<233>>), Text(<<104, 8364, 128512>>)}

RspInit ==
    /\ rspArgs \in [code : RspCodes, ctype : RspTypes, body : RspBodies]
    /\ rspOut = <<>>
    /\ rspPc = "ready"
    /\ SrvInit
    /\ fs = EmptyDict
    /\ MPIdle

RspCall ==
    /\ rspPc = "ready"
    /\ rspOut' = respond(rspArgs.code, rspArgs.ctype, rspArgs.body)
    /\ rspPc' = "sent"
    /\ UNCHANGED <<rspArgs, srvVars, mpVars>>

RspNext == RspCall

SpecRespond == RspInit /\ [][RspNext]_vars

-----------------------------------------------------------------------------
(* The server with the clients of the file routes: writes, reads, deletes  *)
(* and copies of two files, the script requests and the exit request.      *)

\* "b"
BTxt == <<98>>

FilePaths == {ATxt, BTxt}

\* file contents: none, b"hi", and bytes that are no UTF-8 and hold CRLF CRLF
FileContents == {<<>>, Hi, <<255, 13, 10, 13, 10, 0>>}

\* the write-file call for path p (a str) and contents b, as the client
\* sends it
WriteRequest(p, b) ==
    PutRequest(routename(api_fs_writefile), "multipart/form-data", TRUE,
               EncodeMultipart(<<66>>, <<FormField(PathKey, Utf8Encode(p)),
                                        FormField(ContentsKey, b)>>))

\* a write-file call without the contents field
PathOnlyRequest(p) ==
    PutRequest(routename(api_fs_writefile), "multipart/form-data", TRUE,
               EncodeMultipart(<<66>>, <<FormField(PathKey, Utf8Encode(p))>>))

\* the read-text call for path p
ReadRequest(p) ==
    GetRequest(TargetOf(routename(api_fs_readtext), QueryFor(JStr(p))))

\* the delete-file call for [p]
DeleteRequest(p) ==
    GetRequest(TargetOf(routename(api_fs_deletefile),
                        QueryFor(JArr(<<JStr(p)>>))))

\* the copy-file call for {"src": p, "dest": q}
CopyRequest(p, q) ==
    PutRequest(routename(api_fs_copyfile), "application/json", TRUE,
               Utf8Encode(JsonDumps(JObj(DictSet(DictSet(EmptyDict, SrcKey,
                                                          JStr(p)),
                                                  DestKey, JStr(q))))))

FileRequests ==
    {WriteRequest(p, b) : p \in FilePaths, b \in FileContents}
    \cup {PathOnlyRequest(ATxt), CopyRequest(ATxt, BTxt)}
    \cup {ReadRequest(p) : p \in FilePaths \cup {ApiJsPath}}
    \cup {DeleteRequest(p) : p \in FilePaths}
    \cup {GetRequest(ApiJsTarget), GetRequest(routename(api_exit))}

AcceptFiles == AcceptFrom(FileRequests)

NextFiles ==
    \/ Decorate
    \/ StartServer
    \/ Poll
    \/ Interrupt
    \/ AcceptFiles
    \/ Dispatch
    \/ CallFunction
    \/ SetQuit
    \/ Except
    \/ Reraise
    \/ HandleError
    \/ Return
    \/ Close

SpecFiles == Init /\ [][NextFiles]_vars

-----------------------------------------------------------------------------
(* The server with few clients and fair threads: the control loop polls    *)
(* again and again, and the listener thread goes on from api_exit's        *)
(* response to its assignment. Nothing makes a dialog return or a client   *)
(* send a request.                                                         *)

\* "{}"
EmptyObjectText == <<123, 125>>

\* GET /api/exit, the same with args={} (one argument too many), a GET of an
\* unregistered path and a GET of /api/ui/choosefolder with args={}
LiveRequests ==
    {GetRequest(routename(api_exit)),
     GetRequest(TargetOf(routename(api_exit), ArgsEq \o EmptyObjectText)),
     GetRequest(NoSuchPath),
     GetRequest(TargetOf(routename(api_ui_choosefolder),
                         ArgsEq \o EmptyObjectText))}

AcceptLive == AcceptFrom(LiveRequests)

NextLive ==
    \/ Decorate
    \/ StartServer
    \/ Poll
    \/ Interrupt
    \/ AcceptLive
    \/ Dispatch
    \/ CallFunction
    \/ SetQuit
    \/ Except
    \/ Reraise
    \/ HandleError
    \/ Return
    \/ Close

SpecLive ==
    /\ Init
    /\ [][NextLive]_vars
    /\ WF_vars(Poll)
    /\ WF_vars(SetQuit)

-----------------------------------------------------------------------------
(* Properties of decode_multipart.                                         *)

\* the content the client gave the part named n
ContentOf(parts, n) ==
    parts[CHOOSE i \in 1..Len(parts) : parts[i].name = n].content

FormNames(parts) ==
    {parts[i].name : i \in {j \in 1..Len(parts) : parts[j].hdr = "form"}}

\* the encoder's precondition: the boundary occurs in no content
BoundaryFree ==
    \A i \in 1..Len(mpParts) : ~Contains(mpParts[i].content, mpBoundary)

AllForm == \A i \in 1..Len(mpParts) : mpParts[i].hdr = "form"

\* C8: decode_multipart is a left inverse of the encoder. Whenever N
\* distinctly named byte fields (any N from 1 to MaxParts, so 1, 2 and 5; in
\* any order; contents possibly empty; the boundary in no content) have been
\* encoded and the body decoded, the decoder did not raise and returned the
\* mapping that holds exactly the (name, bytes) pairs that were encoded.
C8_MultipartLeftInverse ==
    (mpPc = "decoded" /\ AllForm /\ BoundaryFree)
        => /\ mpOut.ok
           /\ DOMAIN mpOut.data = PartNames(mpParts)
           /\ \A n \in PartNames(mpParts) :
                 mpOut.data[n] = ContentOf(mpParts, n)

\* five fields, not in name order, one empty and one not, decoded
C8_Witness ==
    /\ mpPc = "decoded"
    /\ Len(mpParts) = 5
    /\ mpParts[1].name = <<233>>
    /\ mpParts[5].name = <<97>>
    /\ mpParts[5].content = <<>>
    /\ mpParts[2].content # <<>>
    /\ mpOut.ok
    /\ Cardinality(DOMAIN mpOut.data) = 5

\* C9: a part is split into header block and content at the first CRLF CRLF
\* only. Every form-data part whose content itself holds CRLF CRLF (once or
\* several times) is decoded to its full, unmodified content.
C9_SplitAtFirstBlankLine ==
    (mpPc = "decoded" /\ BoundaryFree)
        => \A i \in 1..Len(mpParts) :
              (mpParts[i].hdr = "form"
                 /\ Contains(mpParts[i].content, CRLFCRLF))
                 => /\ mpOut.ok
                    /\ mpParts[i].name \in DOMAIN mpOut.data
                    /\ mpOut.data[mpParts[i].name] = mpParts[i].content

\* a decoded form-data part whose content is CRLF CRLF CRLF
C9_Witness ==
    /\ mpPc = "decoded"
    /\ BoundaryFree
    /\ \E i \in 1..Len(mpParts) :
          /\ mpParts[i].hdr = "form"
          /\ mpParts[i].content = <<13, 10, 13, 10, 13, 10>>
          /\ mpOut.ok
          /\ mpOut.data[mpParts[i].name] = <<13, 10, 13, 10, 13, 10>>

\* C10: decoding a body with a part whose header block does not start with
\* the form-data disposition prefix does not raise; that part is absent from
\* the result, and every form-data part of the body is present with its
\* exact content.
C10_OtherDispositionDropped ==
    (mpPc = "decoded" /\ BoundaryFree /\ ~AllForm)
        => /\ mpOut.ok
           /\ DOMAIN mpOut.data = FormNames(mpParts)
           /\ \A n \in FormNames(mpParts) :
                 mpOut.data[n] = ContentOf(mpParts, n)

\* an attachment part between two form-data parts: dropped, the others kept
C10_Witness ==
    /\ mpPc = "decoded"
    /\ BoundaryFree
    /\ Len(mpParts) = 3
    /\ mpParts[1].hdr = "form"
    /\ mpParts[2].hdr = "attach"
    /\ mpParts[3].hdr = "form"
    /\ mpParts[2].content # <<>>
    /\ mpOut.ok
    /\ DOMAIN mpOut.data = {mpParts[1].name, mpParts[3].name}


-----------------------------------------------------------------------------
(* Properties of the server. What the client was sent is read off the log  *)
(* of the request.                                                         *)

\* the positions of the log where a response starts
StatusAt(l) == {i \in 1..Len(l) : l[i].op = "status"}

\* the entries of the response that starts at l[i]: up to the next status
\* line or the end of the log
Segment(l, i) ==
    LET later == {j \in StatusAt(l) : j > i}
        last == IF later = {} THEN Len(l)
                ELSE (CHOOSE j \in later : \A k \in later : j <= k) - 1
    IN  SubSeq(l, i, last)

RECURSIVE BodyOf(_)
\* the bytes written in a segment
BodyOf(seg) ==
    IF seg = <<>> THEN <<>>
    ELSE (IF Head(seg).op = "write" THEN Head(seg).data ELSE <<>>)
         \o BodyOf(Tail(seg))

\* the values of the Content-type headers of a segment
ContentTypes(seg) ==
    {seg[j].value : j \in {k \in 1..Len(seg) :
                             seg[k].op = "header" /\ seg[k].name = "Content-type"}}

\* the response that starts at l[i], as the client reads it
ResponseAt(l, i) ==
    [code |-> l[i].code, ctypes |-> ContentTypes(Segment(l, i)),
     body |-> BodyOf(Segment(l, i)),
     writes |-> Len(SelectSeq(Segment(l, i), LAMBDA e : e.op = "write"))]

LastStatus(l) == CHOOSE i \in StatusAt(l) : \A j \in StatusAt(l) : j <= i

\* the request is under the API prefix
IsApi(r) == StartsWith(urlparse(r.target).path, ApiPrefix)

\* the route function was called through its wrapper and raised
HandlerRaised == fn # <<>> /\ exc.raised

\* C1: when a route function called through the wrapper raised e, the client
\* has been sent, once the except clause has run, a response with status
\* 404, content type text/plain and the UTF-8 bytes of str(e) as its body;
\* for an empty str(e) nothing is written after the headers. It is the last
\* response of the request. This holds for every route and every argument
\* list the requests lead to.
C1_HandlerError404 ==
    (HandlerRaised /\ lpc \in {"reraise", "failed", "done"})
        => /\ StatusAt(log) # {}
           /\ LET r == ResponseAt(log, LastStatus(log))
              IN  /\ r.code = 404
                  /\ r.ctypes = {"text/plain"}
                  /\ r.body = Utf8Encode(exc.msg)
                  /\ r.writes = IF exc.msg = <<>> THEN 0 ELSE 1

\* a route function raised with a message that is not ASCII, and the request
\* is over
C1_Witness ==
    /\ HandlerRaised
    /\ lpc = "done"
    /\ \E i \in 1..Len(exc.msg) : exc.msg[i] > 127
    /\ ResponseAt(log, LastStatus(log)).code = 404
    /\ Len(ResponseAt(log, LastStatus(log)).body) > Len(exc.msg)

\* C2: every GET or PUT whose path is under /api/ and is no key of routes
\* has been sent a response with status 404 when its handling is over.
\* The code does not do this: routes[urlobj.path] raises KeyError in do_GET
\* and do_PUT, outside every wrapper, and nothing is sent.
C2_UnregisteredPath404 ==
    (lpc = "done" /\ IsApi(req)
       /\ urlparse(req.target).path \notin DOMAIN routes)
        => \E i \in StatusAt(log) : log[i].code = 404


\* the functions called in a log, in order
CallsOf(l) ==
    LET c == SelectSeq(l, LAMBDA e : e.op = "call")
    IN  [i \in 1..Len(c) |-> c[i].data]

\* "/" + name with every "_" replaced by "/", character by character
PathOfName(name) ==
    <<47>> \o [i \in 1..Len(name) |-> IF name[i] = 95 THEN 47 ELSE name[i]]

MaxIdLen == 3

\* the characters of the function names of the check: a, b, _
IdChars == {97, 98, 95}

\* the function names of at most MaxIdLen characters
Idents == UNION {[1..n -> IdChars] : n \in 1..MaxIdLen}

C4_ListenerSurvives ==
    /\ [](lpc \in {"off", "idle", "dispatch", "call", "exit_flag", "except",
                   "reraise", "returned", "failed", "done"})
    /\ [][(lpc = "failed" /\ lpc' # "failed")
             => (lpc' = "done" /\ quit' = quit /\ mainpc' = mainpc)]_vars
    /\ [][quit' # quit
             => (lpc = "exit_flag" /\ fn = api_exit /\ ~exc.raised)]_vars
    /\ []((lpc = "done" /\ req = GetRequest(PathOfName(api_exit))
             /\ nfail > 0)
             => /\ outcome = "completed"
                /\ StatusAt(log) # {}
                /\ ResponseAt(log, LastStatus(log)).code = 204)

\* MaxFails requests failed, and then a request to /api/exit was answered
C4_Witness ==
    /\ nfail = MaxFails
    /\ lpc = "done"
    /\ req = GetRequest(PathOfName(api_exit))
    /\ fn = api_exit
    /\ outcome = "completed"
    /\ ResponseAt(log, LastStatus(log)).code = 204

\* C5: the wrapper responds before it re-raises, and always re-raises. The
\* re-raise of a request comes after a complete 404 response with str(e) as
\* its body; while the except clause has not re-raised, no exception has
\* left the wrapper; and once a route function raised and the wrapper is
\* left, the exception left it too: the re-raise is the last thing of the
\* request, whose handling is aborted.
C5_RespondThenReraise ==
    /\ \A i \in 1..Len(log) :
          log[i].op = "raise"
             => \E k \in StatusAt(log) :
                   /\ k < i
                   /\ log[k].code = 404
                   /\ \E e \in k..(i - 1) : log[e].op = "end"
                   /\ BodyOf(SubSeq(log, k, i - 1)) = Utf8Encode(exc.msg)
    /\ (HandlerRaised /\ lpc \in {"except", "reraise"})
          => /\ \A i \in 1..Len(log) : log[i].op # "raise"
             /\ ~exc.wrapped
    /\ (HandlerRaised /\ lpc \in {"failed", "done"})
          => /\ log # <<>>
             /\ log[Len(log)].op = "raise"
             /\ exc.wrapped
             /\ (lpc = "done" => outcome = "aborted")

\* a route function raised, the 404 response was sent and the exception
\* left the wrapper
C5_Witness ==
    /\ HandlerRaised
    /\ lpc = "failed"
    /\ exc.wrapped
    /\ Len(log) > 1
    /\ log[Len(log)].op = "raise"
    /\ log[Len(log) - 1].op \in {"end", "write"}

\* decoding the body of a PUT raises
BodyUndecodable(r) ==
    \/ /\ r.ctype = "multipart/form-data"
       /\ ~decode_multipart(ReadContent(r)).ok
    \/ /\ r.ctype = "application/json"
       /\ \/ ~Utf8Decode(ReadContent(r)).ok
          \/ ~json_loads(Utf8Decode(ReadContent(r)).s).ok

\* C6: when decoding the body of a PUT under /api/ raises, the exception is
\* raised outside the wrapper: no route function is called, nothing is sent
\* to the client (no 404 and no other response), and the handling of the
\* request is aborted.
C6_PutDecodeOutsideWrapper ==
    (lpc = "done" /\ req.method = "PUT")
        => \/ /\ fn = <<>>
              /\ log = <<>>
              /\ exc.raised
              /\ ~exc.wrapped
              /\ outcome = "aborted"
           \/ ~IsApi(req)
           \/ ~BodyUndecodable(req)

\* a PUT of an empty multipart body to /api/fs/writefile is over
C6_Witness ==
    /\ lpc = "done"
    /\ req.method = "PUT"
    /\ urlparse(req.target).path = PathOfName(api_fs_writefile)
    /\ req.ctype = "multipart/form-data"
    /\ req.body = <<>>
    /\ outcome = "aborted"
    /\ log = <<>>

\* C7: an API request that reaches a route function passes it exactly one
\* argument when it is a GET with a query string or a PUT, and none when it
\* is a GET without query string; a PUT that reaches a route function has a
\* body; and the argument of a GET with args=<json> is that JSON value,
\* nested arrays and objects included.
C7_OneDecodedArgument ==
    fn # <<>>
        => \A u \in {urlparse(req.target)} :
              StartsWith(u.path, ApiPrefix)
                 => /\ Len(fargs) = IF req.method = "GET" /\ u.query = <<>>
                                      THEN 0 ELSE 1
                    /\ req.method = "PUT" => ReadContent(req) # <<>>
                    /\ \A j \in JsonSamples :
                          (req.method = "GET"
                             /\ u.query = ArgsEq \o JsonDumps(j))
                             => fargs = <<j>>

\* a GET with args=["a.txt",{"a":[20]}] reached a route function
C7_Witness ==
    /\ fn # <<>>
    /\ IsApi(req)
    /\ req.method = "GET"
    /\ fargs = <<JArr(<<JStr(ATxt),
                        JObj(DictSet(EmptyDict, <<97>>, JArr(<<JNum(20)>>)))>>)>>


\* a route function of a dialog is running
InDialog ==
    /\ lpc = "call"
    /\ fn \in {api_ui_chooseopenfile, api_ui_choosesavefile, api_ui_choosefolder}

\* C11: once api_exit has run (its response is sent), _quit_server is set
\* unless the process ends first, and once set it stays set; with a control
\* loop that keeps polling the process then exits; the poll that sees the
\* flag can exit wherever the listener is, so no request is waited for.
C11_ExitTerminates ==
    /\ [][quit => quit']_vars
    /\ (lpc = "exit_flag") ~> (quit \/ mainpc = "exited")
    /\ quit ~> (mainpc = "exited")
    /\ []((quit /\ mainpc = "loop") => ENABLED Poll)

\* the process exited on the flag while a dialog of a later request was
\* still open
C11_Witness ==
    /\ mainpc = "exited"
    /\ exitWhy = "quit"
    /\ quit
    /\ InDialog


\* the request names the file path p as something to write, delete or copy to
Touches(r, p) ==
    \/ \E b \in FileContents : r = WriteRequest(p, b)
    \/ r = PathOnlyRequest(p)
    \/ r = DeleteRequest(p)
    \/ \E q \in FilePaths : r = CopyRequest(q, p)

\* the file at the absolute path q differs between two file systems
Differs(f, g, q) ==
    \/ (q \in DOMAIN f) # (q \in DOMAIN g)
    \/ (q \in DOMAIN f /\ q \in DOMAIN g /\ f[q] # g[q])

\* C12: reading back what was written. For all paths p and contents b of
\* the requests: the step in which a write-file call for {path: p, contents:
\* b} returns leaves exactly b in the file of p and a 200 response; the
\* file of p changes in no step but the call of the route function of a
\* write, delete or copy request that names p; and a read-text request for
\* p, while the file exists, is answered 200 with exactly the file's bytes
\* as its body.
C12_ReadBackWritten ==
    /\ [][\A p \in FilePaths : \A b \in FileContents :
             (req = WriteRequest(p, b) /\ lpc = "call" /\ lpc' = "returned")
                => /\ abspath(p) \in DOMAIN fs'
                   /\ fs'[abspath(p)] = b
                   /\ Cardinality(StatusAt(log')) = 1
                   /\ ResponseAt(log', LastStatus(log')).code = 200]_vars
    /\ [][\A p \in FilePaths :
             Differs(fs, fs', abspath(p)) => (lpc = "call" /\ Touches(req, p))
         ]_vars
    /\ [](\A p \in FilePaths :
             (req = ReadRequest(p) /\ lpc \in {"returned", "done"}
                /\ abspath(p) \in DOMAIN fs)
                => /\ Cardinality(StatusAt(log)) = 1
                   /\ ResponseAt(log, LastStatus(log)).code = 200
                   /\ ResponseAt(log, LastStatus(log)).body = fs[abspath(p)])

\* a.txt was written with bytes that are no text, and a read-text request
\* for it has been answered with these bytes
C12_Witness ==
    /\ lpc = "done"
    /\ req = ReadRequest(ATxt)
    /\ outcome = "completed"
    /\ ResponseAt(log, LastStatus(log)).code = 200
    /\ ResponseAt(log, LastStatus(log)).body = <<255, 13, 10, 13, 10, 0>>


\* status and body of reading api.js beside the server module, in a file
\* system: 200 and the bytes, or 404 and the message of the error of open
ScriptAnswer(files) ==
    IF ApiJsPath \in DOMAIN files
    THEN [code |-> 200, body |-> files[ApiJsPath]]
    ELSE [code |-> 404, body |-> Utf8Encode(MsgNoFile(ApiJsPath))]

\* C13: a GET of /@api.js and a read-text request for api.js beside the
\* server module are answered with the same status and the same body, in
\* every file system: both with 200 and the file's bytes when it exists,
\* both with 404 and the same message when it does not.
C13_ScriptAsReadText ==
    \A r \in {GetRequest(ApiJsTarget), ReadRequest(ApiJsPath)} :
        (req = r /\ lpc = "done")
            => /\ StatusAt(log) # {}
               /\ ResponseAt(log, LastStatus(log)).code = ScriptAnswer(fs).code
               /\ ResponseAt(log, LastStatus(log)).body = ScriptAnswer(fs).body
               /\ Cardinality(StatusAt(log)) = 1

\* a GET of /@api.js was answered 200 with the bytes of the script
C13_Witness ==
    /\ lpc = "done"
    /\ req = GetRequest(ApiJsTarget)
    /\ ApiJsPath \in DOMAIN fs
    /\ ResponseAt(log, LastStatus(log)).code = 200
    /\ ResponseAt(log, LastStatus(log)).body = Js


\* the positions of an operation in what respond did
OpsAt(out, op) == {i \in 1..Len(out) : out[i].op = op}

\* C14: every call of respond, whatever the status code and with or without
\* content type and body, sends the header Cache-Control: no-cache, after
\* the status line and before the one end of the headers.
C14_CacheControlAlways ==
    rspPc = "sent"
        => /\ Cardinality(OpsAt(rspOut, "end")) = 1
           /\ rspOut[1] = SendStatus(rspArgs.code)
           /\ \E i \in OpsAt(rspOut, "header") :
                 /\ rspOut[i].name = "Cache-Control"
                 /\ rspOut[i].value = "no-cache"
                 /\ \A e \in OpsAt(rspOut, "end") : 1 < i /\ i < e

\* respond(204) was called without content type and without body
C14_Witness ==
    /\ rspPc = "sent"
    /\ rspArgs = [code |-> 204, ctype |-> "", body |-> NoBody]
    /\ rspOut[2].name = "Cache-Control"
    /\ rspOut[3].op = "end"

\* C15: what respond writes. Bytes that are not empty are written as they
\* are, in one write after the end of the headers; a text that is not empty
\* is written as its UTF-8 encoding (which decodes back to the text); for
\* no body, b"" and "" the status line and the headers are sent and nothing
\* is written.
C15_BodyWritten ==
    rspPc = "sent"
        => /\ rspOut[1].op = "status"
           /\ OpsAt(rspOut, "end") # {}
           /\ \A w \in OpsAt(rspOut, "write") :
                 \A e \in OpsAt(rspOut, "end") : e < w
           /\ IF rspArgs.body.v = <<>>
              THEN OpsAt(rspOut, "write") = {}
              ELSE /\ OpsAt(rspOut, "write") = {Len(rspOut)}
                   /\ IF rspArgs.body.k = "bytes"
                      THEN rspOut[Len(rspOut)].data = rspArgs.body.v
                      ELSE /\ rspOut[Len(rspOut)].data
                                = Utf8Encode(rspArgs.body.v)
                           /\ Utf8Decode(rspOut[Len(rspOut)].data)
                                = [ok |-> TRUE, s |-> rspArgs.body.v]

\* a text of three characters was written as the eight bytes of its UTF-8
\* encoding
C15_Witness ==
    /\ rspPc = "sent"
    /\ rspArgs.body = Text(<<104, 8364, 128512>>)
    /\ rspOut[Len(rspOut)].op = "write"
    /\ rspOut[Len(rspOut)].data = <<104, 226, 130, 172, 240, 159, 152, 128>>


\* C16: while the route function of one request is in a dialog, the
\* listener can accept another request (and so dispatch and answer it).
\* The code does not do this: HTTPServer handles one request at a time in
\* the one listener thread, which is inside the route function.
C16_ParallelRequests ==
    InDialog => ENABLED Accept


\* C17: the route table is complete before the listener starts and never
\* changes afterwards. Whenever the listener thread exists, all decorators
\* have run and the table holds one path for each of them; the table
\* changes only in a step of the import, with no listener and no request;
\* so no step of any request, completed or aborted, GET or PUT, changes it.
C17_RoutesFixed ==
    /\ [](lpc # "off"
            => /\ mainpc # "import"
               /\ nreg = Len(Decorated)
               /\ Cardinality(DOMAIN routes) = Len(Decorated))
    /\ [][routes' # routes
            => (mainpc = "import" /\ lpc = "off" /\ req = NoRequest
                  /\ nreg' = nreg + 1)]_vars
    /\ [][lpc # "off" => routes' = routes]_vars

\* MaxFails requests were aborted, the last one a PUT, and the table holds
\* all routes
C17_Witness ==
    /\ lpc = "done"
    /\ req.method = "PUT"
    /\ outcome = "aborted"
    /\ nfail = MaxFails
    /\ Cardinality(DOMAIN routes) = Len(Decorated)


\* C18: a PUT under /api/ whose Content-Type is neither exactly
\* multipart/form-data nor exactly application/json (none at all, or
\* multipart/form-data with a boundary parameter) has, when its handling is
\* over, called no route function and been sent nothing; its handling is
\* aborted by the lookup of the path or, for a registered path, by the use
\* of data, which no branch assigned: no decoder has run.
C18_OtherContentType ==
    (lpc = "done" /\ req.method = "PUT"
       /\ req.ctype \notin {"multipart/form-data", "application/json"}
       /\ IsApi(req))
        => /\ fn = <<>>
           /\ log = <<>>
           /\ outcome = "aborted"
           /\ exc.raised
           /\ ~exc.wrapped
           /\ exc.msg = IF urlparse(req.target).path \in DOMAIN routes
                        THEN MsgUnbound
                        ELSE MsgKeyError(urlparse(req.target).path)

\* a write-file PUT with Content-Type multipart/form-data; boundary=B and a
\* well-formed body is over
C18_Witness ==
    /\ lpc = "done"
    /\ req = PutRequest(routename(api_fs_writefile),
                        "multipart/form-data; boundary=B", TRUE, WriteBody(Hi))
    /\ fn = <<>>
    /\ log = <<>>
    /\ outcome = "aborted"
    /\ exc.msg = MsgUnbound


\* C19: respond is called at most once for a request, by the route function
\* and the wrapper together: the log of a request holds at most one status
\* line. The code does not do this: a dialog's route function responds
\* inside its with block, and when TKRoot.__exit__ raises afterwards the
\* except clause of the wrapper responds again.
C19_AnsweredOnce ==
    Cardinality(StatusAt(log)) <= 1


\* the log holds a whole 204 response: its status line and, after it, the
\* end of its headers
Sent204(l) ==
    \E i \in StatusAt(l) :
        /\ l[i].code = 204
        /\ \E j \in (i + 1)..Len(l) : l[j].op = "end"

\* C20: _quit_server is False at startup and while the routes are
\* registered; it becomes True only in api_exit, called through its wrapper
\* without an exception, and only after the 204 response of that call was
\* sent; it is never reset; the control loop exits because of the flag only
\* when the flag is set, so only after that response.
C20_FlagAfterResponse ==
    /\ ~quit
    /\ [](mainpc = "import" => ~quit)
    /\ [][quit' # quit
             => /\ quit'
                /\ lpc = "exit_flag"
                /\ fn = api_exit
                /\ CallsOf(log) = <<api_exit>>
                /\ ~exc.raised
                /\ Sent204(log)
                /\ log' = log]_vars
    /\ [][(exitWhy' = "quit" /\ exitWhy # "quit") => quit]_vars
    /\ [](exitWhy = "quit" => quit)

\* the process exited because of the flag, set by an answered exit request
C20_Witness ==
    /\ mainpc = "exited"
    /\ exitWhy = "quit"
    /\ req = GetRequest(PathOfName(api_exit))
    /\ Sent204(log)

====
